---- MODULE Spec2Model ----
(***************************************************************************)
(* Model of the n2o4 cFS shim layer: the forwarding functions generated by *)
(* the shim1/shim2 macro templates (src/cfs-shims.[ch] and                 *)
(* src/cfs-sys/cfs-shims.[ch]) and the constant globals generated by the   *)
(* S/X macros (src/cfs-sys/cfs-api.h, src/cfs-sys/cfs-shims.c).            *)
(*                                                                         *)
(* The wrapped cFE/OSAL inline functions and the values of the captured    *)
(* preprocessor constants live in external headers.  A wrapped function is *)
(* drawn from a family of pure functions indexed by env; the value of a    *)
(* preprocessor constant IDENT is the symbolic constant expression IDENT.  *)
(***************************************************************************)
EXTENDS Integers, Sequences, FiniteSets, TLC

\* ---------------------------------------------------------------- bounds
\* values per C type used as arguments and results
MaxVals == 2
\* size of the family of wrapped (external) pure libraries
NumEnvs == 2

\* the caller threads: the first is the caller of the sequential
\* specification, both are callers in the concurrent one
Threads == {1, 2}

\* ------------------------------------------------- src/cfs-sys/cfs-api.h
\* the identifiers handed to S(...), in source order
SList ==
  << "CFE_SEVERITY_BITMASK", "CFE_SEVERITY_SUCCESS",
     "CFE_SEVERITY_INFO", "CFE_SEVERITY_ERROR",
     "CFE_SERVICE_BITMASK", "CFE_EVENTS_SERVICE",
     "CFE_EXECUTIVE_SERVICE", "CFE_FILE_SERVICE",
     "CFE_GENERIC_SERVICE", "CFE_SOFTWARE_BUS_SERVICE",
     "CFE_TABLE_SERVICE", "CFE_TIME_SERVICE",
     "CFE_SUCCESS", "CFE_STATUS_NO_COUNTER_INCREMENT",
     "CFE_STATUS_WRONG_MSG_LENGTH", "CFE_STATUS_UNKNOWN_MSG_ID",
     "CFE_STATUS_BAD_COMMAND_CODE", "CFE_STATUS_EXTERNAL_RESOURCE_FAIL",
     "CFE_STATUS_REQUEST_ALREADY_PENDING", "CFE_STATUS_NOT_IMPLEMENTED",
     "CFE_EVS_UNKNOWN_FILTER", "CFE_EVS_APP_NOT_REGISTERED",
     "CFE_EVS_APP_ILLEGAL_APP_ID", "CFE_EVS_APP_FILTER_OVERLOAD",
     "CFE_EVS_RESET_AREA_POINTER", "CFE_EVS_EVT_NOT_REGISTERED",
     "CFE_EVS_FILE_WRITE_ERROR", "CFE_EVS_INVALID_PARAMETER",
     "CFE_EVS_NOT_IMPLEMENTED", "CFE_ES_ERR_RESOURCEID_NOT_VALID",
     "CFE_ES_ERR_NAME_NOT_FOUND", "CFE_ES_ERR_APP_CREATE",
     "CFE_ES_ERR_CHILD_TASK_CREATE", "CFE_ES_ERR_SYS_LOG_FULL",
     "CFE_ES_ERR_MEM_BLOCK_SIZE", "CFE_ES_ERR_LOAD_LIB",
     "CFE_ES_BAD_ARGUMENT", "CFE_ES_ERR_CHILD_TASK_REGISTER",
     "CFE_ES_CDS_ALREADY_EXISTS", "CFE_ES_CDS_INSUFFICIENT_MEMORY",
     "CFE_ES_CDS_INVALID_NAME", "CFE_ES_CDS_INVALID_SIZE",
     "CFE_ES_CDS_INVALID", "CFE_ES_CDS_ACCESS_ERROR",
     "CFE_ES_FILE_IO_ERR", "CFE_ES_RST_ACCESS_ERR",
     "CFE_ES_ERR_APP_REGISTER", "CFE_ES_ERR_CHILD_TASK_DELETE",
     "CFE_ES_ERR_CHILD_TASK_DELETE_MAIN_TASK", "CFE_ES_CDS_BLOCK_CRC_ERR",
     "CFE_ES_MUT_SEM_DELETE_ERR", "CFE_ES_BIN_SEM_DELETE_ERR",
     "CFE_ES_COUNT_SEM_DELETE_ERR", "CFE_ES_QUEUE_DELETE_ERR",
     "CFE_ES_FILE_CLOSE_ERR", "CFE_ES_CDS_WRONG_TYPE_ERR",
     "CFE_ES_CDS_OWNER_ACTIVE_ERR", "CFE_ES_APP_CLEANUP_ERR",
     "CFE_ES_TIMER_DELETE_ERR", "CFE_ES_BUFFER_NOT_IN_POOL",
     "CFE_ES_TASK_DELETE_ERR", "CFE_ES_OPERATION_TIMED_OUT",
     "CFE_ES_LIB_ALREADY_LOADED", "CFE_ES_ERR_SYS_LOG_TRUNCATED",
     "CFE_ES_NO_RESOURCE_IDS_AVAILABLE", "CFE_ES_POOL_BLOCK_INVALID",
     "CFE_ES_ERR_DUPLICATE_NAME", "CFE_ES_NOT_IMPLEMENTED",
     "CFE_FS_BAD_ARGUMENT", "CFE_FS_INVALID_PATH",
     "CFE_FS_FNAME_TOO_LONG", "CFE_FS_NOT_IMPLEMENTED",
     "CFE_MSG_WRONG_MSG_TYPE", "CFE_SB_TIME_OUT",
     "CFE_SB_NO_MESSAGE", "CFE_SB_BAD_ARGUMENT",
     "CFE_SB_MAX_PIPES_MET", "CFE_SB_PIPE_CR_ERR",
     "CFE_SB_PIPE_RD_ERR", "CFE_SB_MSG_TOO_BIG",
     "CFE_SB_BUF_ALOC_ERR", "CFE_SB_MAX_MSGS_MET",
     "CFE_SB_MAX_DESTS_MET", "CFE_SB_INTERNAL_ERR",
     "CFE_SB_WRONG_MSG_TYPE", "CFE_SB_BUFFER_INVALID",
     "CFE_SB_NOT_IMPLEMENTED", "CFE_TBL_ERR_INVALID_HANDLE",
     "CFE_TBL_ERR_INVALID_NAME", "CFE_TBL_ERR_INVALID_SIZE",
     "CFE_TBL_INFO_UPDATE_PENDING", "CFE_TBL_ERR_NEVER_LOADED",
     "CFE_TBL_ERR_REGISTRY_FULL", "CFE_TBL_WARN_DUPLICATE",
     "CFE_TBL_ERR_NO_ACCESS", "CFE_TBL_ERR_UNREGISTERED",
     "CFE_TBL_ERR_HANDLES_FULL", "CFE_TBL_ERR_DUPLICATE_DIFF_SIZE",
     "CFE_TBL_ERR_DUPLICATE_NOT_OWNED", "CFE_TBL_INFO_UPDATED",
     "CFE_TBL_ERR_NO_BUFFER_AVAIL", "CFE_TBL_ERR_DUMP_ONLY",
     "CFE_TBL_ERR_ILLEGAL_SRC_TYPE", "CFE_TBL_ERR_LOAD_IN_PROGRESS",
     "CFE_TBL_ERR_FILE_TOO_LARGE", "CFE_TBL_WARN_SHORT_FILE",
     "CFE_TBL_ERR_BAD_CONTENT_ID", "CFE_TBL_INFO_NO_UPDATE_PENDING",
     "CFE_TBL_INFO_TABLE_LOCKED", "CFE_TBL_INFO_VALIDATION_PENDING",
     "CFE_TBL_INFO_NO_VALIDATION_PENDING", "CFE_TBL_ERR_BAD_SUBTYPE_ID",
     "CFE_TBL_ERR_FILE_SIZE_INCONSISTENT", "CFE_TBL_ERR_NO_STD_HEADER",
     "CFE_TBL_ERR_NO_TBL_HEADER", "CFE_TBL_ERR_FILENAME_TOO_LONG",
     "CFE_TBL_ERR_FILE_FOR_WRONG_TABLE", "CFE_TBL_ERR_LOAD_INCOMPLETE",
     "CFE_TBL_WARN_PARTIAL_LOAD", "CFE_TBL_ERR_PARTIAL_LOAD",
     "CFE_TBL_INFO_DUMP_PENDING", "CFE_TBL_ERR_INVALID_OPTIONS",
     "CFE_TBL_WARN_NOT_CRITICAL", "CFE_TBL_INFO_RECOVERED_TBL",
     "CFE_TBL_ERR_BAD_SPACECRAFT_ID", "CFE_TBL_ERR_BAD_PROCESSOR_ID",
     "CFE_TBL_MESSAGE_ERROR", "CFE_TBL_ERR_SHORT_FILE",
     "CFE_TBL_ERR_ACCESS", "CFE_TBL_BAD_ARGUMENT",
     "CFE_TBL_NOT_IMPLEMENTED", "CFE_TIME_NOT_IMPLEMENTED",
     "CFE_TIME_INTERNAL_ONLY", "CFE_TIME_OUT_OF_RANGE",
     "CFE_TIME_TOO_MANY_SYNCH_CALLBACKS", "CFE_TIME_CALLBACK_NOT_REGISTERED",
     "CFE_TIME_BAD_ARGUMENT" >>

\* the (IDENT, TYPE) pairs handed to X(...), in source order
XList ==
  << <<"CFE_ES_TASK_STACK_ALLOCATE", "CFE_ES_StackPointer_t">>,
     <<"CFE_RESOURCEID_RESERVED", "CFE_ResourceId_t">>,
     <<"CFE_RESOURCEID_UNDEFINED", "CFE_ResourceId_t">>,
     <<"CFE_SB_MSGID_RESERVED", "CFE_SB_MsgId_t">>,
     <<"CFE_SB_INVALID_MSG_ID", "CFE_SB_MsgId_t">>,
     <<"CFE_TBL_BAD_TABLE_HANDLE", "CFE_TBL_Handle_t">>,
     <<"OS_OBJECT_ID_UNDEFINED", "osal_id_t">> >>

\* the two members of CFE_SB_DEFAULT_QOS captured below
QosExprs == <<"CFE_SB_DEFAULT_QOS.Priority", "CFE_SB_DEFAULT_QOS.Reliability">>

\* every constant expression of the external headers that is captured
ConstExprs ==
  SList \o [i \in 1..Len(XList) |-> XList[i][1]] \o QosExprs

\* The value of a captured constant expression.  The values are set by the
\* external cFE/OSAL/PSP headers; the model numbers the expressions, so that
\* different expressions have different values.
ExprValue ==
  [k \in 1..Len(ConstExprs) |-> k]

ValueOf(expr) == ExprValue[CHOOSE k \in 1..Len(ConstExprs) : ConstExprs[k] = expr]

\* #define S(IDENT) const CFE_Status_t S_ ## IDENT = IDENT;
\* a definition is: the pasted name, the file, the type, the const qualifier
\* and the initialiser (the constant expression it captures)
S(IDENT) ==
  [name |-> <<"S", IDENT>>, file |-> "cfs-api.h", type |-> "CFE_Status_t",
   const |-> TRUE, init |-> IDENT]

\* variant: the macro does not paste IDENT into the name
X_NoPaste(IDENT, TYPE) ==
  [name |-> <<"X", "IDENT">>, file |-> "cfs-api.h", type |-> TYPE,
   const |-> TRUE, init |-> IDENT]

\* #define X(IDENT, TYPE) const TYPE X_ ## IDENT = IDENT;
X(IDENT, TYPE) ==
  [name |-> <<"X", IDENT>>, file |-> "cfs-api.h", type |-> TYPE,
   const |-> TRUE, init |-> IDENT]

\* const uint8 X_CFE_SB_DEFAULT_QOS_PRIORITY = CFE_SB_DEFAULT_QOS.Priority;
\* const uint8 X_CFE_SB_DEFAULT_QOS_RELIABILITY = CFE_SB_DEFAULT_QOS.Reliability;
QosGlobals ==
  << [name |-> <<"X", "CFE_SB_DEFAULT_QOS_PRIORITY">>, file |-> "cfs-api.h",
      type |-> "uint8", const |-> TRUE, init |-> QosExprs[1]],
     [name |-> <<"X", "CFE_SB_DEFAULT_QOS_RELIABILITY">>, file |-> "cfs-api.h",
      type |-> "uint8", const |-> TRUE, init |-> QosExprs[2]] >>

\* CFE_ES_StackPointer_t X_CFE_ES_TASK_STACK_ALLOCATE = CFE_ES_TASK_STACK_ALLOCATE;
ShimsCGlobals ==
  << [name |-> <<"X", "CFE_ES_TASK_STACK_ALLOCATE">>, file |-> "cfs-shims.c",
      type |-> "CFE_ES_StackPointer_t", const |-> FALSE,
      init |-> "CFE_ES_TASK_STACK_ALLOCATE"] >>

\* every object definition of src/cfs-sys, in source order
GlobalDefs ==
  [i \in 1..Len(SList) |-> S(SList[i])]
  \o [i \in 1..Len(XList) |-> X(XList[i][1], XList[i][2])]
  \o QosGlobals
  \o ShimsCGlobals

\* static initialisation: every object holds the value of its initialiser
InitialGlobals ==
  [g \in 1..Len(GlobalDefs) |-> ValueOf(GlobalDefs[g].init)]

\* The memory of the objects is kept as the image laid down by static
\* initialisation plus the stores performed since (object -> value stored).
\* the value an object holds now
ValueNow(stores, g) ==
  IF g \in DOMAIN stores THEN stores[g] ELSE InitialGlobals[g]

\* the memory after storing v into object g
Store(stores, g, v) ==
  [h \in (DOMAIN stores) \cup {g} |-> IF h = g THEN v ELSE stores[h]]

GlobalIds == 1..Len(GlobalDefs)

\* the objects defined without the const qualifier
NonConstIds == {g \in GlobalIds : ~GlobalDefs[g].const}

\* --------------------------------------------- src/cfs-sys/cfs-shims.h
\* the shim1/shim2 list: macro, rettype, fname, arg1type, arg1[, arg2type, arg2]
SysShimList ==
  << <<"shim1", "unsigned long", "CFE_ResourceId_ToInteger", "CFE_ResourceId_t", "id">>,
     <<"shim1", "CFE_ResourceId_t", "CFE_ResourceId_FromInteger", "unsigned long", "Value">>,
     <<"shim2", "bool", "CFE_ResourceId_Equal", "CFE_ResourceId_t", "id1", "CFE_ResourceId_t", "id2">>,
     <<"shim1", "bool", "CFE_ResourceId_IsDefined", "CFE_ResourceId_t", "id">>,
     <<"shim2", "bool", "CFE_SB_MsgId_Equal", "CFE_SB_MsgId_t", "MsgId1", "CFE_SB_MsgId_t", "MsgId2">>,
     <<"shim1", "CFE_SB_MsgId_Atom_t", "CFE_SB_MsgIdToValue", "CFE_SB_MsgId_t", "MsgId">>,
     <<"shim1", "CFE_SB_MsgId_t", "CFE_SB_ValueToMsgId", "CFE_SB_MsgId_Atom_t", "MsgIdValue">>,
     <<"shim1", "int64", "OS_TimeGetTotalSeconds", "OS_time_t", "tm">>,
     <<"shim1", "int64", "OS_TimeGetTotalMilliseconds", "OS_time_t", "tm">>,
     <<"shim1", "int64", "OS_TimeGetTotalMicroseconds", "OS_time_t", "tm">>,
     <<"shim1", "int64", "OS_TimeGetTotalNanoseconds", "OS_time_t", "tm">>,
     <<"shim1", "int64", "OS_TimeGetFractionalPart", "OS_time_t", "tm">>,
     <<"shim1", "uint32", "OS_TimeGetSubsecondsPart", "OS_time_t", "tm">>,
     <<"shim1", "uint32", "OS_TimeGetMillisecondsPart", "OS_time_t", "tm">>,
     <<"shim1", "uint32", "OS_TimeGetMicrosecondsPart", "OS_time_t", "tm">>,
     <<"shim1", "uint32", "OS_TimeGetNanosecondsPart", "OS_time_t", "tm">>,
     <<"shim2", "OS_time_t", "OS_TimeAssembleFromNanoseconds", "int64", "seconds", "uint32", "nanoseconds">>,
     <<"shim2", "OS_time_t", "OS_TimeAssembleFromMicroseconds", "int64", "seconds", "uint32", "microseconds">>,
     <<"shim2", "OS_time_t", "OS_TimeAssembleFromMilliseconds", "int64", "seconds", "uint32", "milliseconds">>,
     <<"shim2", "OS_time_t", "OS_TimeAssembleFromSubseconds", "int64", "seconds", "uint32", "subseconds">>,
     <<"shim2", "OS_time_t", "OS_TimeAdd", "OS_time_t", "time1", "OS_time_t", "time2">>,
     <<"shim2", "OS_time_t", "OS_TimeSubtract", "OS_time_t", "time1", "OS_time_t", "time2">>,
     <<"shim1", "unsigned long", "OS_ObjectIdToInteger", "osal_id_t", "object_id">>,
     <<"shim1", "osal_id_t", "OS_ObjectIdFromInteger", "unsigned long", "value">>,
     <<"shim2", "bool", "OS_ObjectIdEqual", "osal_id_t", "object_id1", "osal_id_t", "object_id2">>,
     <<"shim1", "bool", "OS_ObjectIdDefined", "osal_id_t", "object_id">> >>

\* ------------------------------------------------------ src/cfs-shims.c
\* the shim1/shim2 instantiations: macro, rettype, fname, arg1type[, arg2type]
TopShimList ==
  << <<"shim1", "unsigned long", "CFE_ResourceId_ToInteger", "CFE_ResourceId_t">>,
     <<"shim1", "CFE_ResourceId_t", "CFE_ResourceId_FromInteger", "unsigned long">>,
     <<"shim2", "bool", "CFE_ResourceId_Equal", "CFE_ResourceId_t", "CFE_ResourceId_t">>,
     <<"shim1", "bool", "CFE_ResourceId_IsDefined", "CFE_ResourceId_t">>,
     <<"shim2", "bool", "CFE_SB_MsgId_Equal", "CFE_SB_MsgId_t", "CFE_SB_MsgId_t">>,
     <<"shim1", "CFE_SB_MsgId_Atom_t", "CFE_SB_MsgIdToValue", "CFE_SB_MsgId_t">>,
     <<"shim1", "CFE_SB_MsgId_t", "CFE_SB_ValueToMsgId", "CFE_SB_MsgId_Atom_t">>,
     <<"shim1", "int64", "OS_TimeGetTotalSeconds", "OS_time_t">>,
     <<"shim1", "int64", "OS_TimeGetTotalMilliseconds", "OS_time_t">>,
     <<"shim1", "int64", "OS_TimeGetTotalMicroseconds", "OS_time_t">>,
     <<"shim1", "int64", "OS_TimeGetTotalNanoseconds", "OS_time_t">>,
     <<"shim1", "int64", "OS_TimeGetFractionalPart", "OS_time_t">>,
     <<"shim1", "uint32", "OS_TimeGetSubsecondsPart", "OS_time_t">>,
     <<"shim1", "uint32", "OS_TimeGetMillisecondsPart", "OS_time_t">>,
     <<"shim1", "uint32", "OS_TimeGetMicrosecondsPart", "OS_time_t">>,
     <<"shim1", "uint32", "OS_TimeGetNanosecondsPart", "OS_time_t">>,
     <<"shim2", "OS_time_t", "OS_TimeAssembleFromNanoseconds", "int64", "uint32">>,
     <<"shim2", "OS_time_t", "OS_TimeAssembleFromMicroseconds", "int64", "uint32">>,
     <<"shim2", "OS_time_t", "OS_TimeAssembleFromMilliseconds", "int64", "uint32">>,
     <<"shim2", "OS_time_t", "OS_TimeAssembleFromSubseconds", "int64", "uint32">>,
     <<"shim2", "OS_time_t", "OS_TimeAdd", "OS_time_t", "OS_time_t">>,
     <<"shim2", "OS_time_t", "OS_TimeSubtract", "OS_time_t", "OS_time_t">>,
     <<"shim1", "unsigned long", "OS_ObjectIdToInteger", "osal_id_t">>,
     <<"shim1", "osal_id_t", "OS_ObjectIdFromInteger", "unsigned long">>,
     <<"shim2", "bool", "OS_ObjectIdEqual", "osal_id_t", "osal_id_t">>,
     <<"shim1", "bool", "OS_ObjectIdDefined", "osal_id_t">> >>

\* ------------------------------------------------------ src/cfs-shims.h
\* the hand-written prototypes
TopProtos ==
  << [name |-> <<"SHIM", "CFE_ResourceId_ToInteger">>, ret |-> "unsigned long", params |-> <<"CFE_ResourceId_t">>, pnames |-> <<"id">>],
     [name |-> <<"SHIM", "CFE_ResourceId_FromInteger">>, ret |-> "CFE_ResourceId_t", params |-> <<"unsigned long">>, pnames |-> <<"Value">>],
     [name |-> <<"SHIM", "CFE_ResourceId_Equal">>, ret |-> "bool", params |-> <<"CFE_ResourceId_t", "CFE_ResourceId_t">>, pnames |-> <<"id1", "id2">>],
     [name |-> <<"SHIM", "CFE_ResourceId_IsDefined">>, ret |-> "bool", params |-> <<"CFE_ResourceId_t">>, pnames |-> <<"id">>],
     [name |-> <<"SHIM", "CFE_SB_MsgId_Equal">>, ret |-> "bool", params |-> <<"CFE_SB_MsgId_t", "CFE_SB_MsgId_t">>, pnames |-> <<"MsgId1", "MsgId2">>],
     [name |-> <<"SHIM", "CFE_SB_MsgIdToValue">>, ret |-> "CFE_SB_MsgId_Atom_t", params |-> <<"CFE_SB_MsgId_t">>, pnames |-> <<"MsgId">>],
     [name |-> <<"SHIM", "CFE_SB_ValueToMsgId">>, ret |-> "CFE_SB_MsgId_t", params |-> <<"CFE_SB_MsgId_Atom_t">>, pnames |-> <<"MsgIdValue">>],
     [name |-> <<"SHIM", "OS_TimeGetTotalSeconds">>, ret |-> "int64", params |-> <<"OS_time_t">>, pnames |-> <<"tm">>],
     [name |-> <<"SHIM", "OS_TimeGetTotalMilliseconds">>, ret |-> "int64", params |-> <<"OS_time_t">>, pnames |-> <<"tm">>],
     [name |-> <<"SHIM", "OS_TimeGetTotalMicroseconds">>, ret |-> "int64", params |-> <<"OS_time_t">>, pnames |-> <<"tm">>],
     [name |-> <<"SHIM", "OS_TimeGetTotalNanoseconds">>, ret |-> "int64", params |-> <<"OS_time_t">>, pnames |-> <<"tm">>],
     [name |-> <<"SHIM", "OS_TimeGetFractionalPart">>, ret |-> "int64", params |-> <<"OS_time_t">>, pnames |-> <<"tm">>],
     [name |-> <<"SHIM", "OS_TimeGetSubsecondsPart">>, ret |-> "uint32", params |-> <<"OS_time_t">>, pnames |-> <<"tm">>],
     [name |-> <<"SHIM", "OS_TimeGetMillisecondsPart">>, ret |-> "uint32", params |-> <<"OS_time_t">>, pnames |-> <<"tm">>],
     [name |-> <<"SHIM", "OS_TimeGetMicrosecondsPart">>, ret |-> "uint32", params |-> <<"OS_time_t">>, pnames |-> <<"tm">>],
     [name |-> <<"SHIM", "OS_TimeGetNanosecondsPart">>, ret |-> "uint32", params |-> <<"OS_time_t">>, pnames |-> <<"tm">>],
     [name |-> <<"SHIM", "OS_TimeAssembleFromNanoseconds">>, ret |-> "OS_time_t", params |-> <<"int64", "uint32">>, pnames |-> <<"seconds", "nanoseconds">>],
     [name |-> <<"SHIM", "OS_TimeAssembleFromMicroseconds">>, ret |-> "OS_time_t", params |-> <<"int64", "uint32">>, pnames |-> <<"seconds", "microseconds">>],
     [name |-> <<"SHIM", "OS_TimeAssembleFromMilliseconds">>, ret |-> "OS_time_t", params |-> <<"int64", "uint32">>, pnames |-> <<"seconds", "milliseconds">>],
     [name |-> <<"SHIM", "OS_TimeAssembleFromSubseconds">>, ret |-> "OS_time_t", params |-> <<"int64", "uint32">>, pnames |-> <<"seconds", "subseconds">>],
     [name |-> <<"SHIM", "OS_TimeAdd">>, ret |-> "OS_time_t", params |-> <<"OS_time_t", "OS_time_t">>, pnames |-> <<"time1", "time2">>],
     [name |-> <<"SHIM", "OS_TimeSubtract">>, ret |-> "OS_time_t", params |-> <<"OS_time_t", "OS_time_t">>, pnames |-> <<"time1", "time2">>],
     [name |-> <<"SHIM", "OS_ObjectIdToInteger">>, ret |-> "unsigned long", params |-> <<"osal_id_t">>, pnames |-> <<"object_id">>],
     [name |-> <<"SHIM", "OS_ObjectIdFromInteger">>, ret |-> "osal_id_t", params |-> <<"unsigned long">>, pnames |-> <<"value">>],
     [name |-> <<"SHIM", "OS_ObjectIdEqual">>, ret |-> "bool", params |-> <<"osal_id_t", "osal_id_t">>, pnames |-> <<"object_id1", "object_id2">>],
     [name |-> <<"SHIM", "OS_ObjectIdDefined">>, ret |-> "bool", params |-> <<"osal_id_t">>, pnames |-> <<"object_id">>] >>

\* ------------------------------------------------------ macro templates
\* A prototype is [name, ret, params, pnames]; a function definition adds the
\* body `return callee(...)`: the callee and, per callee argument position,
\* the number of the shim parameter passed there.

\* src/cfs-sys/cfs-shims.h: rettype SHIM_ ## fname(arg1type arg1);
SysProto1(rettype, fname, arg1type, arg1) ==
  [name |-> <<"SHIM", fname>>, ret |-> rettype,
   params |-> <<arg1type>>, pnames |-> <<arg1>>]

\* src/cfs-sys/cfs-shims.h: rettype SHIM_ ## fname(arg1type arg1, arg2type arg2);
SysProto2(rettype, fname, arg1type, arg1, arg2type, arg2) ==
  [name |-> <<"SHIM", fname>>, ret |-> rettype,
   params |-> <<arg1type, arg2type>>, pnames |-> <<arg1, arg2>>]

\* src/cfs-sys/cfs-shims.c: rettype SHIM_ ## fname(arg1type arg1) { return fname(arg1); }
SysShim1(rettype, fname, arg1type, arg1) ==
  [name |-> <<"SHIM", fname>>, ret |-> rettype,
   params |-> <<arg1type>>, pnames |-> <<arg1>>,
   callee |-> fname, pass |-> <<1>>]

\* src/cfs-sys/cfs-shims.c:
\* rettype SHIM_ ## fname(arg1type arg1, arg2type arg2) { return fname(arg1, arg2); }
SysShim2(rettype, fname, arg1type, arg1, arg2type, arg2) ==
  [name |-> <<"SHIM", fname>>, ret |-> rettype,
   params |-> <<arg1type, arg2type>>, pnames |-> <<arg1, arg2>>,
   callee |-> fname, pass |-> <<1, 2>>]

\* src/cfs-shims.c: rettype SHIM_ ## fname(arg1type arg1) { return fname(arg1); }
TopShim1(rettype, fname, arg1type) ==
  [name |-> <<"SHIM", fname>>, ret |-> rettype,
   params |-> <<arg1type>>, pnames |-> <<"arg1">>,
   callee |-> fname, pass |-> <<1>>]

\* variant: the template declares the two parameters in the other order
TopShim2Swapped(rettype, fname, arg1type, arg2type) ==
  [name |-> <<"SHIM", fname>>, ret |-> rettype,
   params |-> <<arg2type, arg1type>>, pnames |-> <<"arg1", "arg2">>,
   callee |-> fname, pass |-> <<1, 2>>]

\* src/cfs-shims.c:
\* rettype SHIM_ ## fname(arg1type arg1, arg2type arg2) { return fname(arg1, arg2); }
TopShim2(rettype, fname, arg1type, arg2type) ==
  [name |-> <<"SHIM", fname>>, ret |-> rettype,
   params |-> <<arg1type, arg2type>>, pnames |-> <<"arg1", "arg2">>,
   callee |-> fname, pass |-> <<1, 2>>]

\* preprocessing src/cfs-sys/cfs-shims.h with shim1/shim2 not predefined
SysProtos ==
  [i \in 1..Len(SysShimList) |->
     LET e == SysShimList[i] IN
     IF e[1] = "shim1" THEN SysProto1(e[2], e[3], e[4], e[5])
                       ELSE SysProto2(e[2], e[3], e[4], e[5], e[6], e[7])]

\* preprocessing src/cfs-sys/cfs-shims.c: the macros are defined, then the
\* list is included
SysDefs ==
  [i \in 1..Len(SysShimList) |->
     LET e == SysShimList[i] IN
     IF e[1] = "shim1" THEN SysShim1(e[2], e[3], e[4], e[5])
                       ELSE SysShim2(e[2], e[3], e[4], e[5], e[6], e[7])]

\* preprocessing src/cfs-shims.c
TopDefs ==
  [i \in 1..Len(TopShimList) |->
     LET e == TopShimList[i] IN
     IF e[1] = "shim1" THEN TopShim1(e[2], e[3], e[4])
                       ELSE TopShim2(e[2], e[3], e[4], e[5])]

\* the two builds of the shim library
Libs == {"top", "sys"}

Protos(lib) == IF lib = "top" THEN TopProtos ELSE SysProtos

Defs(lib) == IF lib = "top" THEN TopDefs ELSE SysDefs

\* signature of a prototype or of a definition
Sig(d) == [name |-> d.name, ret |-> d.ret, params |-> d.params]

\* the linker resolves a call through the prototype named `name` to the
\* definition of that name in the same library
LinkedDefs(lib, name) == {j \in 1..Len(Defs(lib)) : Defs(lib)[j].name = name}

\* ------------------------------------------------------------ C values
\* Sample values of the C types in the shim signatures.  OS_time_t is a
\* struct of one int64 tick count and is represented by that count; an id
\* of 0 is the undefined id, and -1 is a negative time.
TypeVals(ty) ==
  CASE ty = "bool" -> <<0, 1>>
    [] ty \in {"int64", "OS_time_t"} -> <<-1, 1, 0, 2>>
    [] OTHER -> <<0, 1, 2, 3>>

Min(a, b) == IF a < b THEN a ELSE b

\* the first n sample values of a type
Vals(ty, n) == {TypeVals(ty)[k] : k \in 1..Min(n, Len(TypeVals(ty)))}

\* the argument tuples a caller can pass for a parameter type list
ArgTuples(params, n) ==
  IF Len(params) = 1
    THEN {<<a>> : a \in Vals(params[1], n)}
    ELSE {<<a, b>> : a \in Vals(params[1], n), b \in Vals(params[2], n)}

\* The wrapped inline function `callee` of the external library e, applied to
\* the arguments it receives: a pure function of (callee, arguments) whose
\* result is a value of the result type rettype.
Wrapped(e, rettype, callee, passed) ==
  LET r == TypeVals(rettype)
      n == Min(IF MaxVals < 2 THEN 2 ELSE MaxVals, Len(r))
      c == (passed[1] + 1) + (IF Len(passed) > 1 THEN 2 * (passed[2] + 1) ELSE 0)
  IN  r[((e + c) % n) + 1]

\* ---------------------------------------------------------------- state
VARIABLES
  env,      \* which external library (family member) is linked
  globals,  \* the stores made into the objects defined in src/cfs-sys
  pc,       \* per thread: "idle", "inF" (in the wrapped function), "done"
  frame     \* per thread: the shim invocation in progress

vars == <<env, globals, pc, frame>>

NoSig == [name |-> <<>>, ret |-> "", params |-> <<>>]

NoFrame ==
  [proto |-> NoSig, def |-> NoSig, args |-> <<>>,
   calls |-> <<>>, fret |-> <<>>, ret |-> <<>>]

\* values a client can store into a CFE_ES_StackPointer_t object: the
\* addresses of two client stacks
ClientPtrs == {-1, -2}

Init ==
  /\ env \in 0..(NumEnvs - 1)
  /\ globals = <<>>
  /\ pc = [t \in Threads |-> "idle"]
  /\ frame = [t \in Threads |-> NoFrame]

\* -------------------------------------------------------------- actions
\* variant: the shim body hands its arguments over in reverse order
PassedArgsSwapped(def, args) ==
  [k \in 1..Len(def.pass) |-> args[def.pass[Len(def.pass) + 1 - k]]]

\* the arguments the shim body hands to the wrapped function:
\* `fname(arg1)` or `fname(arg1, arg2)`
PassedArgs(def, args) == [k \in 1..Len(def.pass) |-> args[def.pass[k]]]

\* variant: the shim masks a negative result
ShimResultMasked(def, fret) == IF fret < 0 THEN 0 ELSE fret

\* variant: the result goes through one static buffer shared by all shims,
\* which holds what the latest completed invocation left there
ShimResultShared(def, fret) ==
  IF \E u \in Threads : pc[u] = "done"
    THEN frame[CHOOSE u \in Threads : pc[u] = "done"].ret[1]
    ELSE fret

\* the value of `return fname(...);` given the value the call produced
ShimResult(def, fret) == fret

\* A caller that saw the prototype of shim i of library lib invokes it with
\* args; the shim binds its parameters and its body calls the wrapped function.
ShimCall(t) ==
  /\ pc[t] = "idle"
  /\ \E lib \in Libs :
     \E i \in 1..Len(Protos(lib)) :
     \E j \in LinkedDefs(lib, Protos(lib)[i].name) :
     \E args \in ArgTuples(Protos(lib)[i].params, MaxVals) :
       LET def == Defs(lib)[j] IN
       /\ frame' = [frame EXCEPT ![t] =
                      [proto |-> Sig(Protos(lib)[i]), def |-> Sig(def),
                       args |-> args,
                       calls |-> <<[callee |-> def.callee,
                                    args |-> PassedArgs(def, args)]>>,
                       fret |-> <<>>, ret |-> <<>>]]
  /\ pc' = [pc EXCEPT ![t] = "inF"]
  /\ UNCHANGED <<env, globals>>

\* variant: the shim also leaves its result in the non-const exported object
ShimReturnScratch(t) ==
  /\ pc[t] = "inF"
  /\ LET c == frame[t].calls[Len(frame[t].calls)]
         v == Wrapped(env, frame[t].def.ret, c.callee, c.args)
     IN  /\ frame' = [frame EXCEPT ![t].fret = Append(@, v),
                                   ![t].ret = <<ShimResult(frame[t].def, v)>>]
         /\ globals' = Store(globals, Len(GlobalDefs), v)
  /\ pc' = [pc EXCEPT ![t] = "done"]
  /\ UNCHANGED env

\* the wrapped function returns to the shim, and the shim executes `return`
\* with the value of the call
ShimReturn(t) ==
  /\ pc[t] = "inF"
  /\ LET c == frame[t].calls[Len(frame[t].calls)]
         v == Wrapped(env, frame[t].def.ret, c.callee, c.args)
     IN  frame' = [frame EXCEPT ![t].fret = Append(@, v),
                                ![t].ret = <<ShimResult(frame[t].def, v)>>]
  /\ pc' = [pc EXCEPT ![t] = "done"]
  /\ UNCHANGED <<env, globals>>

\* the caller consumes the result; the invocation is over
CallerResume(t) ==
  /\ pc[t] = "done"
  /\ frame' = [frame EXCEPT ![t] = NoFrame]
  /\ pc' = [pc EXCEPT ![t] = "idle"]
  /\ UNCHANGED <<env, globals>>

\* whether client code can assign to the object: a const-qualified object
\* is not a modifiable lvalue
Writable(g) == g \in NonConstIds

\* a client of the library stores a value into an exported object
ClientWrite(g, v) ==
  /\ Writable(g)
  /\ globals' = Store(globals, g, v)
  /\ UNCHANGED <<env, pc, frame>>

\* one caller
Next ==
  \/ ShimCall(1)
  \/ ShimReturn(1)
  \/ CallerResume(1)
  \/ \E g \in GlobalIds, v \in ClientPtrs : ClientWrite(g, v)

Spec == Init /\ [][Next]_vars

\* several callers in any interleaving
NextConc ==
  \/ \E t \in Threads : ShimCall(t)
  \/ \E t \in Threads : ShimReturn(t)
  \/ \E t \in Threads : CallerResume(t)
  \/ \E g \in GlobalIds, v \in ClientPtrs : ClientWrite(g, v)

SpecConc == Init /\ [][NextConc]_vars

TypeOK ==
  /\ env \in 0..(NumEnvs - 1)
  /\ pc \in [Threads -> {"idle", "inF", "done"}]
\* ----------------------------------------------------------- properties
\* the name of the wrapped function behind a shim signature
WrappedName(sig) == sig.name[2]

InShim(t) == pc[t] \in {"inF", "done"}

\* C1: when a shim invocation has returned, the value it returned is exactly
\* the value the wrapped function returned to it in that invocation; nothing
\* is substituted, converted or masked, also for the undefined id 0 and for
\* a negative time.
C1_Passthrough ==
  \A t \in Threads :
    pc[t] = "done" =>
      /\ Len(frame[t].fret) = 1
      /\ frame[t].ret = <<frame[t].fret[1]>>

\* C1 witness: a shim has returned a negative time, and a shim has returned
\* nothing else than what the wrapped function gave
C1_Witness ==
  /\ pc[1] = "done"
  /\ frame[1].def.ret = "OS_time_t"
  /\ frame[1].fret = <<-1>>
  /\ frame[1].ret = <<-1>>

\* C2: the shims keep no state between calls: two completed invocations of
\* the same shim with the same arguments, made at different points of any
\* history, hold the same result, and no step of a shim invocation changes
\* the value of any exported object.
C2_NoShimState ==
  /\ [](\A t, u \in Threads :
          (/\ pc[t] = "done" /\ pc[u] = "done"
           /\ frame[t].def.name = frame[u].def.name
           /\ frame[t].args = frame[u].args)
          => frame[t].ret = frame[u].ret)
  /\ [][(pc' # pc \/ frame' # frame) => globals' = globals]_vars

\* C2 witness: after a client store, two invocations of one shim with the
\* same arguments have both completed
C2_Witness ==
  /\ globals # <<>>
  /\ pc[1] = "done" /\ pc[2] = "done"
  /\ frame[1].def.name = frame[2].def.name
  /\ frame[1].args = frame[2].args

\* C3: every object generated by S(IDENT) has type CFE_Status_t, every object
\* generated by X(IDENT, TYPE) has type TYPE, the two QOS objects capture the
\* Priority and Reliability members, and in every reachable state every
\* exported constant object holds the value of the constant it captures.
C3_ConstantsMaterialized ==
  /\ \A i \in 1..Len(SList) :
       /\ GlobalDefs[i].name = <<"S", SList[i]>>
       /\ GlobalDefs[i].type = "CFE_Status_t"
       /\ GlobalDefs[i].init = SList[i]
  /\ \A i \in 1..Len(XList) :
       /\ GlobalDefs[Len(SList) + i].name = <<"X", XList[i][1]>>
       /\ GlobalDefs[Len(SList) + i].type = XList[i][2]
       /\ GlobalDefs[Len(SList) + i].init = XList[i][1]
  /\ \A g \in GlobalIds : ValueNow(globals, g) = ValueOf(GlobalDefs[g].init)

\* C5: under any interleaving of invocations by several threads, a completed
\* invocation holds the value the wrapped function yields for that
\* invocation's own arguments (what it returns when run alone), and a thread
\* is never blocked: an idle thread can enter a shim, a thread inside a shim
\* can return, a thread that has returned can go on.
C5_Independent ==
  \A t \in Threads :
    /\ pc[t] = "done" =>
         frame[t].ret =
           <<Wrapped(env, frame[t].proto.ret, WrappedName(frame[t].proto),
                     frame[t].args)>>
    /\ pc[t] = "idle" => ENABLED ShimCall(t)
    /\ pc[t] = "inF" => ENABLED ShimReturn(t)
    /\ pc[t] = "done" => ENABLED CallerResume(t)

\* C5 witness: one thread has completed an invocation while another thread is
\* inside a different shim
C5_Witness ==
  /\ pc[1] = "done"
  /\ pc[2] = "inF"
  /\ frame[1].def.name # frame[2].def.name
  /\ frame[1].ret # <<Wrapped(env, frame[2].def.ret,
                              WrappedName(frame[2].def), frame[2].args)>>

\* C6: an invocation of SHIM_F makes exactly one call, of F, with the shim's
\* own arguments unmodified and in the same positional order; outside an
\* invocation no call is made.
C6_OneCallInOrder ==
  \A t \in Threads :
    /\ InShim(t) =>
         frame[t].calls = <<[callee |-> WrappedName(frame[t].proto),
                             args |-> frame[t].args]>>
    /\ pc[t] = "idle" => frame[t].calls = <<>>

\* C6 witness: SHIM_OS_TimeSubtract(t1, t2) with t1 # t2 has called
\* OS_TimeSubtract(t1, t2)
C6_Witness ==
  /\ pc[1] = "done"
  /\ frame[1].proto.name = <<"SHIM", "OS_TimeSubtract">>
  /\ frame[1].args = <<-1, 1>>
  /\ frame[1].calls = <<[callee |-> "OS_TimeSubtract", args |-> <<-1, 1>>]>>

\* C7: every exported constant object is const in every place it is defined,
\* so that it holds its initial value in every reachable state.
C7_AllConst ==
  \A g \in GlobalIds :
    /\ GlobalDefs[g].const
    /\ ValueNow(globals, g) = InitialGlobals[g]

\* the names of the objects and of the shim functions defined in src/cfs-sys
ObjectNames == {GlobalDefs[g].name : g \in GlobalIds}

NoRepeat(seq, key(_)) ==
  \A i, j \in 1..Len(seq) : key(seq[i]) = key(seq[j]) => i = j

ListIdent(e) == e[1]

ListFname(e) == e[3]

SelfKey(e) == e

\* C8 as stated: every exported name of src/cfs-sys is defined exactly once
\* (so it denotes one object with one value): no name is defined both in
\* cfs-api.h and in cfs-shims.c, no identifier occurs twice in the S or X
\* lists, no function twice in the shim list.
C8_DefinedOnce ==
  /\ \A g, h \in GlobalIds :
       GlobalDefs[g].name = GlobalDefs[h].name
       => (g = h /\ ValueNow(globals, g) = ValueNow(globals, h))
  /\ NoRepeat(SList, SelfKey)
  /\ NoRepeat(XList, ListIdent)
  /\ NoRepeat(SysShimList, ListFname)

\* the one name that cfs-shims.c defines again
Redefined == <<"X", "CFE_ES_TASK_STACK_ALLOCATE">>

\* the definitions of that name
RedefinedIds == {g \in GlobalIds : GlobalDefs[g].name = Redefined}

\* the part of the amended C8 that is about the definitions alone
NamesDefinedOnceBut ==
  /\ \A g, h \in GlobalIds :
       (GlobalDefs[g].name = GlobalDefs[h].name /\ g # h)
       => /\ GlobalDefs[g].name = Redefined
          /\ GlobalDefs[g].file # GlobalDefs[h].file
          /\ GlobalDefs[g].type = GlobalDefs[h].type
  /\ Cardinality(RedefinedIds) = 2
  /\ Cardinality(ObjectNames) = Len(GlobalDefs) - 1
  /\ NoRepeat(SList, SelfKey)
  /\ NoRepeat(XList, ListIdent)
  /\ NoRepeat(SysShimList, ListFname)
  /\ NoRepeat(SysDefs, Sig)

\* C8 amended: every exported name of src/cfs-sys other than
\* X_CFE_ES_TASK_STACK_ALLOCATE is defined exactly once; that name is defined
\* exactly twice, once in cfs-api.h and once in cfs-shims.c, both times with
\* type CFE_ES_StackPointer_t, and the two are separate objects whose values
\* agree until a client stores into the one that is not const.  No identifier
\* occurs twice in the S or X lists and no function twice in the shim list.
C8_DefinedOnceBut ==
  /\ NamesDefinedOnceBut
  /\ \A g, h \in RedefinedIds :
       globals = <<>> => ValueNow(globals, g) = ValueNow(globals, h)

\* C8 witness: the two definitions of X_CFE_ES_TASK_STACK_ALLOCATE are two
\* objects: after a client store they hold different values
C8_Witness ==
  \E g, h \in RedefinedIds :
    /\ g # h
    /\ ValueNow(globals, g) # ValueNow(globals, h)

SigSet(seq) == {Sig(seq[i]) : i \in 1..Len(seq)}

\* the part of C9 that is about the three listings alone
SameListings ==
  /\ Cardinality(SigSet(TopProtos)) = 26
  /\ Cardinality({p.name : p \in SigSet(TopProtos)}) = 26
  /\ Len(TopProtos) = 26 /\ Len(TopShimList) = 26 /\ Len(SysShimList) = 26
  /\ SigSet(TopDefs) = SigSet(TopProtos)
  /\ SigSet(SysDefs) = SigSet(TopProtos)
  /\ SigSet(SysProtos) = SigSet(SysDefs)
  /\ \A i \in 1..Len(SysShimList) : Sig(SysProtos[i]) = Sig(SysDefs[i])

\* C9: the prototypes of src/cfs-shims.h, the definitions of src/cfs-shims.c
\* and the list of src/cfs-sys/cfs-shims.h (expanded as prototypes and as
\* definitions) give the same set of 26 signatures (name, return type,
\* parameter types in order), and in every invocation the prototype the
\* caller compiled against is the signature of the definition it reaches.
C9_ListingsAgree ==
  /\ SameListings
  /\ \A t \in Threads : InShim(t) => frame[t].proto = frame[t].def

\* C9 witness: an invocation of a two-parameter shim whose parameter types
\* differ has completed
C9_Witness ==
  /\ pc[1] = "done"
  /\ frame[1].proto.params = <<"int64", "uint32">>
  /\ frame[1].def.params = <<"int64", "uint32">>
  /\ frame[1].args = <<-1, 1>>

====
